---- MODULE Spec2Model ----
(***************************************************************************)
(* Model of the mkey Snowflake-style identifier generator (src/mkey.go):   *)
(* configuration validation (NewNodeWithConfig), the mutex-guarded         *)
(* Generate and GenerateBatch operations with their busy-wait on the       *)
(* millisecond clock, and the component extraction of an identifier.       *)
(***************************************************************************)
EXTENDS Integers, Sequences, FiniteSets, TLC

VARIABLES
    built,    \* result of NewNodeWithConfig: [cfg, err, node], or NotBuilt
    time,     \* Node.time: last millisecond offset used
    step,     \* Node.step: sequence counter
    mu,       \* Node.mu: the thread holding the mutex, or NoThread
    clock,    \* the millisecond clock, time.Since(n.epoch) in ms
    regressed,\* history: the clock has produced a value below an earlier one or below 0
    pc,       \* per thread: position inside Generate / GenerateBatch
    op,       \* per thread: the operation in progress
    count,    \* per thread: the count argument of GenerateBatch (1 for Generate)
    now,      \* per thread: the local variable now
    issued,   \* history: every identifier issued, in issue order
    lastRet,  \* the most recent return of a call
    codec,    \* the encoding or parsing call made on an identifier, and its results
    pair      \* two further Generators with the same layout and different nodes

vars == <<built, time, step, mu, clock, regressed, pc, op, count, now, issued, lastRet,
          codec, pair>>

----------------------------------------------------------------------------
(* Bounds of the model *)

NumThreads == 2
MaxClock == 2
MaxIssued == 4
ModelStepBits == 2
MaxID == 70
MaxLen == 3

Threads == 1..NumThreads
NoThread == 0
NotBuilt == [err |-> TRUE, built |-> FALSE]
NoCodec == [fn |-> "none"]
NoPair == <<>>
NoRet == [op |-> "none", count |-> 0, err |-> FALSE, ids |-> <<>>]

----------------------------------------------------------------------------
(* Program constants *)

MaxNodeBits == 16
MaxStepBits == 16
MaxLayoutBits == 22

----------------------------------------------------------------------------
(* Go integer operators on int64 values, two's complement *)

Pow2(s) == 2 ^ s

\* x << s
ShiftLeft(x, s) == x * Pow2(s)

\* x >> s on a signed value: arithmetic shift
ShiftRight(x, s) == x \div Pow2(s)

\* ^x, and -1 ^ x
Not(x) == (0 - x) - 1

RECURSIVE And(_, _)
And(a, b) ==
    IF a = 0 \/ b = 0 THEN 0
    ELSE IF a = 0 - 1 THEN b
    ELSE IF b = 0 - 1 THEN a
    ELSE (2 * And(a \div 2, b \div 2)) + (IF (a % 2) = 1 /\ (b % 2) = 1 THEN 1 ELSE 0)

RECURSIVE Or(_, _)
Or(a, b) ==
    IF a = 0 THEN b
    ELSE IF b = 0 THEN a
    ELSE IF a = 0 - 1 \/ b = 0 - 1 THEN 0 - 1
    ELSE (2 * Or(a \div 2, b \div 2)) + (IF (a % 2) = 1 \/ (b % 2) = 1 THEN 1 ELSE 0)

RECURSIVE Xor(_, _)
Xor(a, b) ==
    IF a = 0 THEN b
    ELSE IF b = 0 THEN a
    ELSE IF a = 0 - 1 THEN Not(b)
    ELSE IF b = 0 - 1 THEN Not(a)
    ELSE (2 * Xor(a \div 2, b \div 2)) + (((a % 2) + (b % 2)) % 2)

\* uint8 addition
AddUint8(a, b) == (a + b) % 256

----------------------------------------------------------------------------
(* NewNodeWithConfig *)

NodeMaxOf(nodeBits) == Xor(0 - 1, ShiftLeft(0 - 1, nodeBits))

StepMaskOf(stepBits) == Xor(0 - 1, ShiftLeft(0 - 1, stepBits))

\* Variant: the layout limit off by one
BitsInvalidLoose(cfg) ==
    \/ cfg.NodeBits > MaxNodeBits
    \/ cfg.StepBits > MaxStepBits
    \/ AddUint8(cfg.NodeBits, cfg.StepBits) > MaxLayoutBits + 1

BitsInvalid(cfg) ==
    \/ cfg.NodeBits > MaxNodeBits
    \/ cfg.StepBits > MaxStepBits
    \/ AddUint8(cfg.NodeBits, cfg.StepBits) > MaxLayoutBits

\* Variant: no lower bound on the node number
NodeOutOfRangeNoLower(nodeNum, nodeMax) == nodeNum > nodeMax

NodeOutOfRange(nodeNum, nodeMax) == nodeNum < 0 \/ nodeNum > nodeMax

NewNodeWithConfig(cfg) ==
    IF BitsInvalid(cfg)
    THEN [cfg |-> cfg, err |-> TRUE, built |-> TRUE]
    ELSE LET nodeMax == NodeMaxOf(cfg.NodeBits) IN
         IF NodeOutOfRange(cfg.Node, nodeMax)
         THEN [cfg |-> cfg, err |-> TRUE, built |-> TRUE]
         ELSE [cfg |-> cfg, err |-> FALSE, built |-> TRUE,
               node |-> [node      |-> cfg.Node,
                         nodeMax   |-> nodeMax,
                         nodeMask  |-> ShiftLeft(nodeMax, cfg.StepBits),
                         stepMask  |-> StepMaskOf(cfg.StepBits),
                         timeShift |-> AddUint8(cfg.NodeBits, cfg.StepBits),
                         nodeShift |-> cfg.StepBits]]

\* The Generator the calls operate on
n == built.node

----------------------------------------------------------------------------
(* Identifier layout and component extraction *)

\* Variant: the node is not shifted into its field
MakeIDNodeUnshifted(t, nd, s) ==
    Or(Or(ShiftLeft(t, nd.timeShift), nd.node), s)

MakeID(t, nd, s) ==
    Or(Or(ShiftLeft(t, nd.timeShift), ShiftLeft(nd.node, nd.nodeShift)), s)

\* ID.Time without the epoch offset: int64(f) >> node.timeShift
TimeOffset(f, nd) == ShiftRight(f, nd.timeShift)

NodeID(f, nd) == ShiftRight(And(f, nd.nodeMask), nd.nodeShift)

Step(f, nd) == And(f, nd.stepMask)

----------------------------------------------------------------------------
(* Configurations the model constructs *)

\* Config.NodeBits and Config.StepBits are uint8, Config.Node is int64
ConfigBits == (0..(MaxLayoutBits + 2)) \cup {255}
ConfigNodes == ((0 - 1)..4) \cup {1023, 1024, 65535, 65536}
AllConfigs == [NodeBits : ConfigBits, StepBits : ConfigBits, Node : ConfigNodes]

\* Valid layouts small enough to exhaust the step space within the bounds
SmallConfigs ==
    {c \in [NodeBits : {2}, StepBits : 0..ModelStepBits, Node : {2}] :
        ~NewNodeWithConfig(c).err}

\* The layout used where the clock may step back: two steps per millisecond
SkewConfigs == {c \in SmallConfigs : c.StepBits = 1}

\* The layouts used for termination: the step space is exhausted at once
LiveConfigs == {c \in SmallConfigs : c.StepBits <= 1}

----------------------------------------------------------------------------
(* The clock: time.Since(n.epoch).Nanoseconds() / 1000000 *)

\* Variant: the sample truncated to a narrow counter
SampleWrapped(c) == c % 2

Sample(c) == c

Tick ==
    /\ clock < MaxClock
    /\ clock' = clock + 1
    /\ UNCHANGED <<codec, pair, built, time, step, mu, regressed, pc, op, count, now, issued, lastRet>>

\* A sample lower than an earlier one (the clock adjustment of spec section 4.2)
ClockBack ==
    /\ ~regressed
    /\ \E c \in (0 - 1)..(clock - 1) : clock' = c
    /\ regressed' = TRUE
    /\ UNCHANGED <<codec, pair, built, time, step, mu, pc, op, count, now, issued, lastRet>>

----------------------------------------------------------------------------
(* Generate and GenerateBatch *)

RECURSIVE SumCount(_)
SumCount(k) == IF k = 0 THEN 0 ELSE count[k] + SumCount(k - 1)

\* Identifiers issued or about to be issued by calls in progress
Reserved == Len(issued) + SumCount(NumThreads)

\* Variant: the step is not incremented
NextStepStuck(s, stepMask) == s

\* Variant: the incremented step is not masked
NextStepUnmasked(s, stepMask) == s + 1

NextStep(s, stepMask) == And(s + 1, stepMask)

\* Variant: count 0 passes the argument check
CountInvalidZeroOk(c, stepMask) == c < 0 \/ c > stepMask

CountInvalid(c, stepMask) == c <= 0 \/ c > stepMask

\* Variant: no capacity check
BatchNeedsWaitNever(s, c, stepMask) == FALSE

BatchNeedsWait(s, c, stepMask) == s + c > stepMask

\* Variant: Lock does not wait for the holder
MutexFreeAlways(m) == TRUE

MutexFree(m) == m = NoThread

\* Variant: the lock is kept on return
UnlockSkipped(t) == t

\* defer n.mu.Unlock(): the value of n.mu after the return of thread t
Unlock(t) == NoThread

\* Variant: the loop ends as soon as now equals n.time
StillWaitingStrict(nw, tm) == nw < tm

\* The loop condition  now <= n.time
StillWaiting(nw, tm) == nw <= tm

Entry(id, t, s, o) == [id |-> id, time |-> t, step |-> s, op |-> o]

Return(o, c, e, ids) == [op |-> o, count |-> c, err |-> e, ids |-> ids]

\* A thread enters Generate and acquires n.mu
GenerateCall(t) ==
    /\ pc[t] = "idle"
    /\ Reserved < MaxIssued
    /\ MutexFree(mu)
    /\ mu' = t
    /\ pc' = [pc EXCEPT ![t] = "sample"]
    /\ op' = [op EXCEPT ![t] = "Generate"]
    /\ count' = [count EXCEPT ![t] = 1]
    /\ UNCHANGED <<codec, pair, built, time, step, clock, regressed, now, issued, lastRet>>

\* GenerateBatch with a count the argument check rejects
BatchReject(t, c) ==
    /\ pc[t] = "idle"
    /\ CountInvalid(c, n.stepMask)
    /\ lastRet' = Return("GenerateBatch", c, TRUE, <<>>)
    /\ UNCHANGED <<codec, pair, built, time, step, mu, clock, regressed, pc, op, count, now, issued>>

\* GenerateBatch with a count the argument check accepts; acquires n.mu
BatchCall(t, c) ==
    /\ pc[t] = "idle"
    /\ ~CountInvalid(c, n.stepMask)
    /\ Reserved + c <= MaxIssued
    /\ MutexFree(mu)
    /\ mu' = t
    /\ pc' = [pc EXCEPT ![t] = "sample"]
    /\ op' = [op EXCEPT ![t] = "GenerateBatch"]
    /\ count' = [count EXCEPT ![t] = c]
    /\ UNCHANGED <<codec, pair, built, time, step, clock, regressed, now, issued, lastRet>>

\* Generate: sample the clock and advance or reset the step
GenerateSample(t) ==
    /\ pc[t] = "sample"
    /\ op[t] = "Generate"
    /\ LET sampled == Sample(clock)
           s == IF sampled = time THEN NextStep(step, n.stepMask) ELSE 0
       IN /\ now' = [now EXCEPT ![t] = sampled]
          /\ step' = s
          /\ pc' = [pc EXCEPT ![t] = IF sampled = time /\ s = 0 THEN "wait" ELSE "emit"]
    /\ UNCHANGED <<codec, pair, built, time, mu, clock, regressed, op, count, issued, lastRet>>

\* GenerateBatch: sample the clock and decide whether the batch fits
BatchSample(t) ==
    /\ pc[t] = "sample"
    /\ op[t] = "GenerateBatch"
    /\ LET sampled == Sample(clock)
           full == sampled = time /\ BatchNeedsWait(step, count[t], n.stepMask)
       IN /\ now' = [now EXCEPT ![t] = sampled]
          /\ step' = IF sampled = time THEN step ELSE 0
          /\ pc' = [pc EXCEPT ![t] = IF full THEN "wait" ELSE "emit"]
    /\ UNCHANGED <<codec, pair, built, time, mu, clock, regressed, op, count, issued, lastRet>>

\* One iteration of the loop  for now <= n.time { now = ... }
WaitSpin(t) ==
    /\ pc[t] = "wait"
    /\ StillWaiting(now[t], time)
    /\ now' = [now EXCEPT ![t] = Sample(clock)]
    /\ UNCHANGED <<codec, pair, built, time, step, mu, clock, regressed, pc, op, count, issued, lastRet>>

\* The loop ends: now > n.time (GenerateBatch then resets the step)
WaitDone(t) ==
    /\ pc[t] = "wait"
    /\ ~StillWaiting(now[t], time)
    /\ step' = IF op[t] = "GenerateBatch" THEN 0 ELSE step
    /\ pc' = [pc EXCEPT ![t] = "emit"]
    /\ UNCHANGED <<codec, pair, built, time, mu, clock, regressed, op, count, now, issued, lastRet>>

\* Generate: record the time, build the identifier, unlock and return
GenerateEmit(t) ==
    /\ pc[t] = "emit"
    /\ op[t] = "Generate"
    /\ time' = now[t]
    /\ LET id == MakeID(now[t], n, step)
       IN /\ issued' = Append(issued, Entry(id, time', step, "Generate"))
          /\ lastRet' = Return("Generate", 1, FALSE, <<id>>)
    /\ mu' = Unlock(t)
    /\ pc' = [pc EXCEPT ![t] = "idle"]
    /\ op' = [op EXCEPT ![t] = "none"]
    /\ count' = [count EXCEPT ![t] = 0]
    /\ now' = [now EXCEPT ![t] = 0]
    /\ UNCHANGED <<codec, pair, built, step, clock, regressed>>

\* GenerateBatch: record the time, build count identifiers, unlock and return
BatchEmit(t) ==
    /\ pc[t] = "emit"
    /\ op[t] = "GenerateBatch"
    /\ time' = now[t]
    /\ LET ids == [i \in 1..count[t] |-> MakeID(now[t], n, step + (i - 1))]
           log == [i \in 1..count[t] |->
                     Entry(ids[i], time', step + (i - 1), "GenerateBatch")]
       IN /\ issued' = issued \o log
          /\ lastRet' = Return("GenerateBatch", count[t], FALSE, ids)
    /\ step' = step + count[t]
    /\ mu' = Unlock(t)
    /\ pc' = [pc EXCEPT ![t] = "idle"]
    /\ op' = [op EXCEPT ![t] = "none"]
    /\ count' = [count EXCEPT ![t] = 0]
    /\ now' = [now EXCEPT ![t] = 0]
    /\ UNCHANGED <<codec, pair, built, clock, regressed>>

\* A call to NewNodeWithConfig
Construct(cfg) ==
    /\ ~built.built
    /\ built' = NewNodeWithConfig(cfg)
    /\ UNCHANGED <<codec, pair, time, step, mu, clock, regressed, pc, op, count, now, issued, lastRet>>

----------------------------------------------------------------------------
(* Encoding tables; a string is a sequence of bytes (ASCII codes) *)

\* "7w3x5h9k2m4p6q8r1sdyfgjtnvzbcaeu"
encodeBase32Map ==
    <<55, 119, 51, 120, 53, 104, 57, 107, 50, 109, 52, 112, 54, 113, 56, 114,
      49, 115, 100, 121, 102, 103, 106, 116, 110, 118, 122, 98, 99, 97, 101, 117>>

\* "123456789abcdefghijkmnopqrstuvwxyzABCDEFGHJKLMNPQRSTUVWXYZ"
encodeBase58Map ==
    <<49, 50, 51, 52, 53, 54, 55, 56, 57, 97, 98, 99, 100, 101, 102, 103,
      104, 105, 106, 107, 109, 110, 111, 112, 113, 114, 115, 116, 117, 118, 119, 120,
      121, 122, 65, 66, 67, 68, 69, 70, 71, 72, 74, 75, 76, 77, 78, 80,
      81, 82, 83, 84, 85, 86, 87, 88, 89, 90>>

\* "ABCDEFGHIJKLMNOPQRSTUVWXYZabcdefghijklmnopqrstuvwxyz0123456789-_"
encodeBase64Map ==
    <<65, 66, 67, 68, 69, 70, 71, 72, 73, 74, 75, 76, 77, 78, 79, 80,
      81, 82, 83, 84, 85, 86, 87, 88, 89, 90, 97, 98, 99, 100, 101, 102,
      103, 104, 105, 106, 107, 108, 109, 110, 111, 112, 113, 114, 115, 116, 117, 118,
      119, 120, 121, 122, 48, 49, 50, 51, 52, 53, 54, 55, 56, 57, 45, 95>>

Byte == 0..255

IndexOf(encodeMap, c) == CHOOSE i \in 1..Len(encodeMap) : encodeMap[i] = c

InAlphabet(encodeMap, c) == \E i \in 1..Len(encodeMap) : encodeMap[i] = c

\* Variant: the table is left zero-filled for bytes outside the alphabet
InitDecodeMapZeroFill(encodeMap) ==
    [c \in Byte |-> IF InAlphabet(encodeMap, c) THEN IndexOf(encodeMap, c) - 1 ELSE 0]

\* initDecodeMap: 0xFF everywhere, then the digit value of each alphabet byte
InitDecodeMap(encodeMap) ==
    [c \in Byte |-> IF InAlphabet(encodeMap, c) THEN IndexOf(encodeMap, c) - 1 ELSE 255]

decodeBase32Map == InitDecodeMap(encodeBase32Map)
decodeBase58Map == InitDecodeMap(encodeBase58Map)

----------------------------------------------------------------------------
(* Base32, Base58 and their parsers *)

Reverse(b) == [i \in 1..Len(b) |-> b[(Len(b) + 1) - i]]

\* for f > 0 { b = append(b, encodeMap[f%radix]); f /= radix }
RECURSIVE EncodeLoop(_, _, _, _)
EncodeLoop(f, b, encodeMap, radix) ==
    IF f > 0
    THEN EncodeLoop(f \div radix, Append(b, encodeMap[(f % radix) + 1]), encodeMap, radix)
    ELSE b

Base32(f) ==
    IF f = 0 THEN <<encodeBase32Map[1]>>
    ELSE Reverse(EncodeLoop(f, <<>>, encodeBase32Map, 32))

Base58(f) ==
    IF f = 0 THEN <<encodeBase58Map[1]>>
    ELSE Reverse(EncodeLoop(f, <<>>, encodeBase58Map, 58))

Parsed(id, err) == [id |-> id, err |-> err, done |-> TRUE]
NotParsed == [id |-> 0, err |-> FALSE, done |-> FALSE]

\* for _, c := range b: an invalid byte returns (0, error), else id = id*radix + digit
RECURSIVE ParseLoop(_, _, _, _, _)
ParseLoop(b, i, id, decodeMap, radix) ==
    IF i > Len(b) THEN Parsed(id, FALSE)
    ELSE IF decodeMap[b[i]] = 255 THEN Parsed(0, TRUE)
    ELSE ParseLoop(b, i + 1, (id * radix) + decodeMap[b[i]], decodeMap, radix)

ParseBase32(b) == ParseLoop(b, 1, 0, decodeBase32Map, 32)

ParseBase58(b) == ParseLoop(b, 1, 0, decodeBase58Map, 58)

----------------------------------------------------------------------------
(* Base64 and its parser *)

\* binary.BigEndian.PutUint64(data, uint64(f)): the 8 bytes of the two's complement
RECURSIVE BigEndian(_, _)
BigEndian(f, k) ==
    IF k = 0 THEN <<>> ELSE Append(BigEndian(f \div 256, k - 1), f % 256)

\* Variant: no byte is trimmed
TrimNothing(data) == data

\* for ; i < len(data) && data[i] == 0; i++ {} ; data[i:]
RECURSIVE TrimLeadingZeros(_)
TrimLeadingZeros(data) ==
    IF Len(data) > 0 /\ data[1] = 0 THEN TrimLeadingZeros(Tail(data)) ELSE data

\* The 6-bit digits of a byte sequence, 3 bytes to 4 digits, no padding
RECURSIVE Sextets(_)
Sextets(data) ==
    IF Len(data) = 0 THEN <<>>
    ELSE IF Len(data) = 1
         THEN <<data[1] \div 4, (data[1] % 4) * 16>>
    ELSE IF Len(data) = 2
         THEN <<data[1] \div 4, ((data[1] % 4) * 16) + (data[2] \div 16),
                (data[2] % 16) * 4>>
    ELSE <<data[1] \div 4, ((data[1] % 4) * 16) + (data[2] \div 16),
           ((data[2] % 16) * 4) + (data[3] \div 64), data[3] % 64>>
         \o Sextets(SubSeq(data, 4, Len(data)))

\* base64.RawURLEncoding.EncodeToString
RawURLEncode(data) ==
    LET d == Sextets(data) IN [i \in 1..Len(d) |-> encodeBase64Map[d[i] + 1]]

\* The bytes of a sequence of 6-bit digits; trailing bits are dropped
RECURSIVE Octets(_)
Octets(d) ==
    IF Len(d) < 2 THEN <<>>
    ELSE IF Len(d) = 2
         THEN <<(d[1] * 4) + (d[2] \div 16)>>
    ELSE IF Len(d) = 3
         THEN <<(d[1] * 4) + (d[2] \div 16), ((d[2] % 16) * 16) + (d[3] \div 4)>>
    ELSE <<(d[1] * 4) + (d[2] \div 16), ((d[2] % 16) * 16) + (d[3] \div 4),
           ((d[3] % 4) * 64) + d[4]>>
         \o Octets(SubSeq(d, 5, Len(d)))

\* base64.RawURLEncoding.DecodeString on a string without line breaks
RawURLDecode(text) ==
    IF \/ \E i \in 1..Len(text) : ~InAlphabet(encodeBase64Map, text[i])
       \/ Len(text) % 4 = 1
    THEN [data |-> <<>>, err |-> TRUE]
    ELSE [data |-> Octets([i \in 1..Len(text) |-> IndexOf(encodeBase64Map, text[i]) - 1]),
          err |-> FALSE]

Base64(f) == RawURLEncode(TrimLeadingZeros(BigEndian(f, 8)))

\* id = (id << 8) | b on a uint64, then ID(id): the last 8 bytes, read as int64
RECURSIVE Accumulate(_, _, _)
Accumulate(data, i, id) ==
    IF i > Len(data) THEN id ELSE Accumulate(data, i + 1, (id * 256) + data[i])

Int64OfBytes(data) ==
    LET d == IF Len(data) > 8 THEN SubSeq(data, Len(data) - 7, Len(data)) ELSE data
    IN IF Len(d) = 8 /\ d[1] >= 128
       THEN Accumulate(d, 2, d[1] - 256)
       ELSE Accumulate(d, 1, 0)

ParseBase64(b) ==
    LET r == RawURLDecode(b)
    IN IF r.err THEN Parsed(0, TRUE) ELSE Parsed(Int64OfBytes(r.data), FALSE)

----------------------------------------------------------------------------
(* Calls of the encoders and parsers *)

\* Identifier values: around zero, at digit and byte boundaries, and large
CodecIDs ==
    ((0 - MaxID)..MaxID)
    \cup {255, 256, 1023, 1024, 3363, 3364, 65535, 65536, 16777215, 16777216,
          2147483647, 0 - 255, 0 - 256, 0 - 65536, 0 - 2147483647}

\* Bytes of parser inputs: '7' 'w' 'u' '1' 'Z' in an alphabet, '0' 'l' 0x00 0xFF not
InputBytes == {55, 119, 117, 49, 90, 48, 108, 0, 255}

RECURSIVE Strings(_)
Strings(k) ==
    IF k = 0 THEN {<<>>}
    ELSE LET shorter == Strings(k - 1)
         IN shorter \cup {Append(b, c) : b \in {x \in shorter : Len(x) = k - 1},
                                         c \in InputBytes}

Inputs == Strings(MaxLen)

Encoded(fn, x, text) == [fn |-> fn, x |-> x, text |-> text, parsed |-> NotParsed]

UnchangedByCodec ==
    UNCHANGED <<built, time, step, mu, clock, regressed, pc, op, count, now, issued,
                lastRet, pair>>

EncodeBase32(x) ==
    /\ codec = NoCodec
    /\ codec' = Encoded("Base32", x, Base32(x))
    /\ UnchangedByCodec

EncodeBase58(x) ==
    /\ codec = NoCodec
    /\ codec' = Encoded("Base58", x, Base58(x))
    /\ UnchangedByCodec

EncodeBase64(x) ==
    /\ codec = NoCodec
    /\ codec' = Encoded("Base64", x, Base64(x))
    /\ UnchangedByCodec

\* The matching parser applied to the encoder's output
ParseEncoded ==
    /\ codec.fn \in {"Base32", "Base58", "Base64"}
    /\ ~codec.parsed.done
    /\ codec' = [codec EXCEPT !.parsed =
                    IF codec.fn = "Base32" THEN ParseBase32(codec.text)
                    ELSE IF codec.fn = "Base58" THEN ParseBase58(codec.text)
                    ELSE ParseBase64(codec.text)]
    /\ UnchangedByCodec

\* ParseBase32 on an arbitrary input
CallParseBase32(b) ==
    /\ codec = NoCodec
    /\ codec' = [fn |-> "ParseBase32", x |-> 0, text |-> b, parsed |-> ParseBase32(b)]
    /\ UnchangedByCodec

\* ParseBase58 on an arbitrary input
CallParseBase58(b) ==
    /\ codec = NoCodec
    /\ codec' = [fn |-> "ParseBase58", x |-> 0, text |-> b, parsed |-> ParseBase58(b)]
    /\ UnchangedByCodec

----------------------------------------------------------------------------
(* Two Generators of one layout *)

Generators == 1..2

Other(g) == 3 - g

\* Layouts and the two node numbers: same NodeBits and StepBits, adjacent nodes
PairConfigs ==
    {c \in {<<[NodeBits |-> 2, StepBits |-> sb, Node |-> a],
              [NodeBits |-> 2, StepBits |-> sb, Node |-> b]>> :
                sb \in 0..ModelStepBits, a \in 0..3, b \in 0..3} :
        c[2].Node = c[1].Node + 1}

\* A Generator after construction, with the identifiers it has returned
NewGenerator(cfg) ==
    [node |-> NewNodeWithConfig(cfg).node, time |-> 0, step |-> 0, ids |-> {}]

PairIssued == Cardinality(pair[1].ids) + Cardinality(pair[2].ids)

UnchangedByPair ==
    UNCHANGED <<built, time, step, mu, clock, regressed, pc, op, count, now, issued,
                lastRet, codec>>

\* A whole Generate call on Generator g under its own mutex; nw is the first
\* clock sample and w the sample that ends the wait loop, if the call waits
PairGenerate(g, nw, w) ==
    LET G == pair[g]
        s == IF nw = G.time THEN NextStep(G.step, G.node.stepMask) ELSE 0
        waits == nw = G.time /\ s = 0
        final == IF waits THEN w ELSE nw
    IN /\ PairIssued < MaxIssued
       /\ IF waits THEN ~StillWaiting(w, G.time) ELSE w = nw
       /\ pair' = [pair EXCEPT ![g] =
                      [G EXCEPT !.time = final, !.step = s,
                                !.ids = @ \cup {MakeID(final, G.node, s)}]]
       /\ UnchangedByPair

\* A whole accepted GenerateBatch call on Generator g under its own mutex
PairGenerateBatch(g, c, nw, w) ==
    LET G == pair[g]
        waits == nw = G.time /\ BatchNeedsWait(G.step, c, G.node.stepMask)
        s == IF nw = G.time /\ ~waits THEN G.step ELSE 0
        final == IF waits THEN w ELSE nw
    IN /\ ~CountInvalid(c, G.node.stepMask)
       /\ PairIssued + c <= MaxIssued
       /\ IF waits THEN ~StillWaiting(w, G.time) ELSE w = nw
       /\ pair' = [pair EXCEPT ![g] =
                      [G EXCEPT !.time = final, !.step = s + c,
                                !.ids = @ \cup {MakeID(final, G.node, s + (i - 1)) :
                                                 i \in 1..c}]]
       /\ UnchangedByPair

----------------------------------------------------------------------------
(* Specifications *)

InitCalls ==
    /\ time = 0
    /\ step = 0
    /\ mu = NoThread
    /\ pc = [t \in Threads |-> "idle"]
    /\ op = [t \in Threads |-> "none"]
    /\ count = [t \in Threads |-> 0]
    /\ now = [t \in Threads |-> 0]
    /\ issued = <<>>
    /\ lastRet = NoRet
    /\ codec = NoCodec

\* A Generator after construction, its epoch in the past
Init ==
    /\ \E cfg \in SmallConfigs : built = NewNodeWithConfig(cfg)
    /\ clock = 0
    /\ regressed = FALSE
    /\ InitCalls
    /\ pair = NoPair

\* The same, the epoch possibly in the future: the first samples are negative
InitSkew ==
    /\ \E cfg \in SkewConfigs : built = NewNodeWithConfig(cfg)
    /\ clock \in (0 - 1)..0
    /\ regressed = (clock < 0)
    /\ InitCalls
    /\ pair = NoPair

\* Before any construction
InitConfig ==
    /\ built = NotBuilt
    /\ clock = 0
    /\ regressed = FALSE
    /\ InitCalls
    /\ pair = NoPair

Calls ==
    \E t \in Threads :
        \/ GenerateCall(t)
        \/ \E c \in (0 - 1)..(n.stepMask + 1) : BatchReject(t, c)
        \/ \E c \in (0 - 1)..(n.stepMask + 1) : BatchCall(t, c)
        \/ GenerateSample(t)
        \/ BatchSample(t)
        \/ WaitSpin(t)
        \/ WaitDone(t)
        \/ GenerateEmit(t)
        \/ BatchEmit(t)

Next == Calls \/ Tick

NextSkew == Calls \/ Tick \/ ClockBack

NextConfig == \E cfg \in AllConfigs : Construct(cfg)

\* Concurrent callers of one Generator, a clock that never decreases
Spec == Init /\ [][Next]_vars

\* The same with clock samples that may decrease
SpecSkew == InitSkew /\ [][NextSkew]_vars

\* The steps of a call that holds n.mu: a running caller keeps running
Proceed(t) ==
    \/ GenerateSample(t)
    \/ BatchSample(t)
    \/ WaitSpin(t)
    \/ WaitDone(t)
    \/ GenerateEmit(t)
    \/ BatchEmit(t)

\* A Generator with at most two steps per millisecond, its epoch in the past
InitLive ==
    /\ \E cfg \in LiveConfigs : built = NewNodeWithConfig(cfg)
    /\ clock = 0
    /\ regressed = FALSE
    /\ InitCalls
    /\ pair = NoPair

\* Concurrent callers that keep running, under a clock that keeps advancing
SpecLive ==
    /\ InitLive
    /\ [][Next]_vars
    /\ WF_vars(Tick)
    /\ \A t \in Threads : WF_vars(Proceed(t))

\* No Generator: the encoders and parsers are pure functions of their argument
InitCodec ==
    /\ built = NotBuilt
    /\ clock = 0
    /\ regressed = FALSE
    /\ InitCalls
    /\ pair = NoPair

NextCodec ==
    \/ \E x \in CodecIDs : EncodeBase32(x)
    \/ \E x \in CodecIDs : EncodeBase58(x)
    \/ \E x \in CodecIDs : EncodeBase64(x)
    \/ ParseEncoded
    \/ \E b \in Inputs : CallParseBase32(b)
    \/ \E b \in Inputs : CallParseBase58(b)

\* Encoding and parsing calls over the identifier values and inputs
SpecCodec == InitCodec /\ [][NextCodec]_vars

\* Two Generators after construction; the one Generator of the other
\* specifications takes no step
InitPair ==
    /\ built = NotBuilt
    /\ clock = 0
    /\ regressed = FALSE
    /\ InitCalls
    /\ \E c \in PairConfigs : pair = [g \in Generators |-> NewGenerator(c[g])]

\* Clock samples are arbitrary and not negative
Samples == 0..MaxClock

NextPair ==
    \E g \in Generators :
        \/ \E nw \in Samples, w \in Samples : PairGenerate(g, nw, w)
        \/ \E c \in 1..(pair[g].node.stepMask + 1), nw \in Samples, w \in Samples :
              PairGenerateBatch(g, c, nw, w)

\* Any sequence of calls on two Generators, under any clock samples
SpecPair == InitPair /\ [][NextPair]_vars

\* Calls to NewNodeWithConfig over the configuration space
SpecConfig == InitConfig /\ [][NextConfig]_vars

----------------------------------------------------------------------------
(* Properties *)

InCS(t) == pc[t] \in {"sample", "wait", "emit"}

AllGenerate(i, j) == \A k \in i..j : issued[k].op = "Generate"

C2_ConsecutiveGenerateDistinct ==
    \A i, j \in 1..Len(issued) :
        (i < j /\ AllGenerate(i, j)) => issued[i].id # issued[j].id

\* More Generate-only identifiers than one millisecond holds
C2_Witness ==
    /\ n.stepMask >= 1
    /\ Len(issued) > n.stepMask + 1
    /\ AllGenerate(1, Len(issued))
    /\ \E i \in 1..(Len(issued) - 1) : issued[i].time < issued[i + 1].time

\* C3: in issue order the identifiers never decrease, and two successive
\* Generate results strictly increase.
C3_IssueOrderMonotone ==
    \A i \in 1..(Len(issued) - 1) :
        /\ issued[i].id <= issued[i + 1].id
        /\ AllGenerate(i, i + 1) => issued[i].id < issued[i + 1].id

\* A batch, then a Generate, then an identifier of a later millisecond
C3_Witness ==
    /\ Len(issued) >= 3
    /\ \E i \in 1..(Len(issued) - 1) :
          issued[i].op = "GenerateBatch" /\ issued[i + 1].op = "Generate"
    /\ AllGenerate(Len(issued) - 1, Len(issued))
    /\ issued[1].time < issued[Len(issued)].time

\* C4 as stated: lastTime never decreases, whatever the clock samples are.
C4_LastTimeNeverDecreases == [][time' >= time]_vars

\* C4 amended: as long as no clock sample has been lower than an earlier
\* sample or than the initial lastTime 0, lastTime never decreases.
C4_LastTimeMonotoneUnderMonotoneClock ==
    [][(~regressed') => time' >= time]_vars

\* lastTime advanced twice under a clock that never stepped back
C4_Witness ==
    /\ ~regressed
    /\ time >= 2
    /\ Len(issued) >= 2
    /\ issued[1].time < time

\* C5: an accepted GenerateBatch(k) returns exactly k identifiers with one
\* timestamp, the Generator's node and steps s, s+1, ..., s+k-1, none above
\* stepMask; every k in 1..stepMask is accepted.
C5_BatchContract ==
    lastRet.op = "GenerateBatch" =>
        /\ (lastRet.count >= 1 /\ lastRet.count <= n.stepMask) <=> ~lastRet.err
        /\ ~lastRet.err =>
              /\ Len(lastRet.ids) = lastRet.count
              /\ \E s \in 0..n.stepMask :
                    \A i \in 1..lastRet.count :
                        /\ issued[(Len(issued) - lastRet.count) + i].id = lastRet.ids[i]
                        /\ issued[(Len(issued) - lastRet.count) + i].step = s + (i - 1)
                        /\ Step(lastRet.ids[i], n) = s + (i - 1)
                        /\ s + (i - 1) <= n.stepMask
                        /\ NodeID(lastRet.ids[i], n) = n.node
                        /\ TimeOffset(lastRet.ids[i], n) = TimeOffset(lastRet.ids[1], n)

\* A batch of several identifiers that starts above step 0
C5_Witness ==
    /\ lastRet.op = "GenerateBatch"
    /\ ~lastRet.err
    /\ lastRet.count >= 2
    /\ Step(lastRet.ids[1], n) >= 1

\* C6: GenerateBatch with count <= 0 or count > stepMask returns an error
\* and no identifiers and leaves lastTime and lastStep as they were; no call
\* with such a count gets past the argument check.
C6_RejectedBatchChangesNothing ==
    /\ [](\A t \in Threads :
            op[t] = "GenerateBatch" => (count[t] >= 1 /\ count[t] <= n.stepMask))
    /\ [][(/\ lastRet' # lastRet
           /\ lastRet'.op = "GenerateBatch"
           /\ (lastRet'.count <= 0 \/ lastRet'.count > n.stepMask))
          => (/\ lastRet'.err
              /\ lastRet'.ids = <<>>
              /\ time' = time
              /\ step' = step
              /\ issued' = issued)]_vars

\* A rejection in a state where the Generator has issued identifiers
C6_Witness ==
    /\ lastRet.op = "GenerateBatch"
    /\ lastRet.err
    /\ lastRet.count > n.stepMask
    /\ step > 0
    /\ time > 0

ConfigShouldFail(cfg) ==
    \/ cfg.NodeBits > 16
    \/ cfg.StepBits > 16
    \/ cfg.NodeBits + cfg.StepBits > 22
    \/ cfg.Node < 0
    \/ cfg.Node > (2 ^ cfg.NodeBits) - 1

\* C7: NewNodeWithConfig fails, returning no Generator, exactly when
\* nodeBits > 16, stepBits > 16, nodeBits + stepBits > 22, node < 0 or
\* node > 2^nodeBits - 1; otherwise the Generator has the configured node,
\* nodeBits + stepBits <= 22 and 0 <= node <= nodeMax.
C7_ConfigValidation ==
    built.built =>
        /\ built.err <=> ConfigShouldFail(built.cfg)
        /\ built.err => "node" \notin DOMAIN built
        /\ ~built.err =>
              /\ built.node.node = built.cfg.Node
              /\ built.node.timeShift = built.cfg.NodeBits + built.cfg.StepBits
              /\ built.node.timeShift <= 22
              /\ built.node.node >= 0
              /\ built.node.node <= built.node.nodeMax
              /\ built.node.nodeMax = (2 ^ built.cfg.NodeBits) - 1

\* A Generator with the widest node field and its largest node number
C7_Witness ==
    /\ built.built
    /\ ~built.err
    /\ built.cfg.NodeBits = 16
    /\ built.cfg.Node = 65535

\* C8: for every identifier a Generator issued, NodeID gives the configured
\* node, Step gives the step it was built from, within [0, stepMask], and
\* the bits above timeShift give the lastTime recorded when it was issued.
C8_ComponentRoundTrip ==
    \A i \in 1..Len(issued) :
        /\ NodeID(issued[i].id, n) = n.node
        /\ Step(issued[i].id, n) = issued[i].step
        /\ issued[i].step >= 0
        /\ issued[i].step <= n.stepMask
        /\ TimeOffset(issued[i].id, n) = issued[i].time

\* Identifiers of both operations, with non-zero time, node and step
C8_Witness ==
    /\ n.node > 0
    /\ \E i, j \in 1..Len(issued) :
          /\ issued[i].op = "Generate"
          /\ issued[j].op = "GenerateBatch"
          /\ issued[i].step > 0
          /\ issued[j].step > 0
          /\ issued[i].time > 0

C10_MutualExclusion ==
    /\ [](\A t1, t2 \in Threads :
            InCS(t1) => (mu = t1 /\ (InCS(t2) => t1 = t2)))
    /\ [][\A t \in Threads :
            (InCS(t) /\ pc'[t] = pc[t] /\ now'[t] = now[t])
                => (time' = time /\ step' = step /\ issued' = issued)]_vars

\* One caller busy-waits for the clock while identifiers have been issued
C10_Witness ==
    \E t \in Threads :
        /\ pc[t] = "wait"
        /\ mu = t
        /\ Len(issued) >= 2

\* The clock of the model has ended at lastTime: no later sample exists
ClockEnded(t) == pc[t] = "wait" /\ time >= MaxClock

\* C11: Generate never reports a failure; n.mu is held only by a call in
\* progress (every return releases it); and, the clock advancing and the
\* callers running, every call that was admitted eventually returns.
C11_CallsReturn ==
    /\ [](lastRet.op = "Generate" => (~lastRet.err /\ Len(lastRet.ids) = 1))
    /\ [](mu # NoThread => InCS(mu))
    /\ \A t \in Threads : (InCS(t) ~> (pc[t] = "idle" \/ ClockEnded(t)))

\* A call that waited for the clock has returned and the lock is free again
C11_Witness ==
    /\ mu = NoThread
    /\ n.stepMask >= 1
    /\ Len(issued) >= 2
    /\ \E i \in 1..(Len(issued) - 1) :
          /\ issued[i].step = n.stepMask
          /\ issued[i + 1].step = 0
          /\ issued[i + 1].time > issued[i].time
          /\ issued[i + 1].time > 0


----------------------------------------------------------------------------
(* Encodings *)

RoundTripDone(fn) == codec.fn = fn /\ codec.parsed.done

\* C12: for every identifier x, zero, positive or negative, parsing x.Base32()
\* with ParseBase32 and x.Base58() with ParseBase58 returns x and no error.
C12_Base32Base58RoundTrip ==
    (RoundTripDone("Base32") \/ RoundTripDone("Base58"))
        => (~codec.parsed.err /\ codec.parsed.id = codec.x)

\* C13: for every identifier x, ParseBase64(x.Base64()) returns x and no error;
\* zero encodes to the empty string, which parses to zero.
C13_Base64RoundTrip ==
    /\ RoundTripDone("Base64") => (~codec.parsed.err /\ codec.parsed.id = codec.x)
    /\ (codec.fn = "Base64" /\ codec.x = 0) => codec.text = <<>>

\* A negative identifier, whose 8 bytes are all kept, went through the round trip
C13_Witness ==
    /\ RoundTripDone("Base64")
    /\ codec.x < 0
    /\ Len(codec.text) = 11
    /\ codec.parsed.id = codec.x

AlphabetOnly(encodeMap, b) == \A i \in 1..Len(b) : InAlphabet(encodeMap, b[i])

\* C14: ParseBase32 and ParseBase58 return an error and the identifier 0 for every
\* input holding a byte outside the alphabet, wherever that byte stands, and no
\* error for an input of alphabet bytes only.
C14_InvalidByteRejected ==
    /\ codec.fn = "ParseBase32" =>
          /\ codec.parsed.err <=> ~AlphabetOnly(encodeBase32Map, codec.text)
          /\ codec.parsed.err => codec.parsed.id = 0
    /\ codec.fn = "ParseBase58" =>
          /\ codec.parsed.err <=> ~AlphabetOnly(encodeBase58Map, codec.text)
          /\ codec.parsed.err => codec.parsed.id = 0

\* A non-zero digit followed by a byte outside the alphabet was rejected
C14_Witness ==
    /\ codec.fn = "ParseBase32"
    /\ Len(codec.text) >= 2
    /\ codec.text[1] = 119
    /\ ~InAlphabet(encodeBase32Map, codec.text[Len(codec.text)])
    /\ codec.parsed.err
    /\ codec.parsed.id = 0

\* The value of a digit string in an alphabet, most significant digit first
RECURSIVE ValueOf(_, _, _)
ValueOf(text, encodeMap, radix) ==
    IF Len(text) = 0 THEN 0
    ELSE (ValueOf(SubSeq(text, 1, Len(text) - 1), encodeMap, radix) * radix)
         + (IndexOf(encodeMap, text[Len(text)]) - 1)

RadixDigits(text, x, encodeMap, radix) ==
    /\ Len(text) >= 1
    /\ AlphabetOnly(encodeMap, text)
    /\ Len(text) > 1 => text[1] # encodeMap[1]
    /\ x = 0 => text = <<encodeMap[1]>>
    /\ ValueOf(text, encodeMap, radix) = x

\* C15: Base32 and Base58 write the identifier's radix-32 / radix-58 digits, most
\* significant first and without a leading zero digit, digit d as the d-th
\* alphabet character; zero is the single first character, and no identifier
\* encodes to the empty string.
C15_RadixDigits ==
    /\ codec.fn = "Base32" => RadixDigits(codec.text, codec.x, encodeBase32Map, 32)
    /\ codec.fn = "Base58" => RadixDigits(codec.text, codec.x, encodeBase58Map, 58)

\* The same, for the identifiers that are not negative
C15_RadixDigitsOfNonNegative ==
    /\ (codec.fn = "Base32" /\ codec.x >= 0)
          => RadixDigits(codec.text, codec.x, encodeBase32Map, 32)
    /\ (codec.fn = "Base58" /\ codec.x >= 0)
          => RadixDigits(codec.text, codec.x, encodeBase58Map, 58)


----------------------------------------------------------------------------
(* Exhausted sequence space *)

\* What a call finds when it has sampled the clock as nw: the sequence space of
\* the millisecond lastTime is used up
Exhausted(t, nw) ==
    /\ nw = time
    /\ IF op[t] = "Generate"
       THEN (step + 1) % (n.stepMask + 1) = 0
       ELSE step + count[t] > n.stepMask

NewEntries == SubSeq(issued', Len(issued) + 1, Len(issued'))

\* C16: a call that finds the sequence space of lastTime exhausted (Generate: the
\* sample equals lastTime and the incremented step wraps to 0; GenerateBatch: the
\* sample equals lastTime and lastStep + count > stepMask) waits, issues at a
\* timestamp strictly greater than that lastTime and starts at step 0; every
\* other call whose sample equals lastTime issues at lastTime without waiting.
C16_ExhaustedWaitsForNextMillisecond ==
    [][\A t \in Threads :
        \* sampling: exhausted goes to the wait loop, otherwise straight to issuing
        /\ (pc[t] = "sample" /\ pc'[t] # "sample") =>
              /\ Exhausted(t, now'[t]) => pc'[t] = "wait"
              /\ (now'[t] = time /\ ~Exhausted(t, now'[t])) =>
                    (pc'[t] = "emit" /\ step' < n.stepMask + 1)
              /\ time' = time
        \* the wait loop leaves lastTime alone and ends past it, at step 0
        /\ pc[t] = "wait" => (time' = time /\ issued' = issued)
        /\ (pc[t] = "wait" /\ pc'[t] # "wait") =>
              (pc'[t] = "emit" /\ now'[t] > time /\ step' = 0)
        \* between the decision and the issuing nothing moves
        /\ (pc[t] = "emit" /\ pc'[t] = "emit") =>
              (now'[t] = now[t] /\ step' = step /\ time' = time)
        \* issuing: at the sampled timestamp, starting at the decided step
        /\ (pc[t] = "emit" /\ pc'[t] # "emit") =>
              /\ Len(NewEntries) = count[t]
              /\ \A i \in 1..Len(NewEntries) :
                    /\ NewEntries[i].time = now[t]
                    /\ NewEntries[i].id = MakeID(now[t], n, step + (i - 1))
              /\ time' = now[t]
    ]_vars

\* A batch that found the millisecond exhausted has waited past lastTime
C16_Witness ==
    \E t \in Threads :
        /\ pc[t] = "wait"
        /\ op[t] = "GenerateBatch"
        /\ step > 0
        /\ now[t] > time


----------------------------------------------------------------------------
(* Field ranges *)

\* C17: in every reachable state 0 <= lastStep <= stepMask, and every issued
\* identifier is built from a step in [0, stepMask] and a node in [0, nodeMax],
\* so that no field spills into a neighbouring one: the identifier is the plain
\* sum of its fields, each at its own position.
C17_FieldsInRange ==
    /\ step >= 0
    /\ step <= n.stepMask
    /\ n.node >= 0
    /\ n.node <= n.nodeMax
    /\ \A i \in 1..Len(issued) :
          /\ issued[i].step \in 0..n.stepMask
          /\ issued[i].id = (issued[i].time * Pow2(n.timeShift))
                            + (n.node * Pow2(n.nodeShift)) + issued[i].step
          /\ (issued[i].id \div Pow2(n.nodeShift)) % Pow2(n.timeShift - n.nodeShift)
                = n.node

\* The top of the step range was issued and is the recorded lastStep
C17_Witness ==
    /\ n.stepMask >= 1
    /\ step = n.stepMask
    /\ \E i \in 1..Len(issued) :
          /\ issued[i].step = n.stepMask
          /\ issued[i].time > 0


----------------------------------------------------------------------------
(* Generators with different node numbers *)

\* C18: two Generators with the same nodeBits and stepBits and different node
\* numbers never issue the same identifier, whatever the calls and the
\* non-negative clock samples; a call on one never changes the other's
\* lastTime or lastStep.
C18_DifferentNodesNeverCollide ==
    /\ [](pair[1].ids \cap pair[2].ids = {})
    /\ [][\A g \in Generators :
             pair'[g] # pair[g] =>
                 /\ pair'[Other(g)].time = pair[Other(g)].time
                 /\ pair'[Other(g)].step = pair[Other(g)].step]_vars

\* Both Generators issued at the same non-zero timestamp and step
C18_Witness ==
    \E i \in pair[1].ids, j \in pair[2].ids :
        /\ TimeOffset(i, pair[1].node) = TimeOffset(j, pair[2].node)
        /\ Step(i, pair[1].node) = Step(j, pair[2].node)
        /\ Step(i, pair[1].node) > 0
        /\ TimeOffset(i, pair[1].node) > 0

====
